---- MODULE Spec2Model ----
(***************************************************************************)
(* A model of the survey analysis code of this repository: the package     *)
(* stackoverflow_analyzer (models.py, utils.py, analyzer.py) and the       *)
(* package stacksurvey (core.py, __main__.py).                             *)
(*                                                                         *)
(* Text is a sequence of character codes (ASCII), so that splitting,       *)
(* trimming, lower-casing, substring search and sorting are computed the   *)
(* way Python computes them.  A cell of a table is a number, a text or     *)
(* null (NaN).  A Series is a column of cells with its pandas dtype; a     *)
(* DataFrame is an ordered list of column names with their dtypes and an   *)
(* ordered list of rows.                                                   *)
(***************************************************************************)
EXTENDS Integers, Sequences, FiniteSets, TLC

VARIABLES
  analyzer,        \* the StackOverflowAnalyzer instance (its survey_data), or PyNone
  _survey_data,    \* stacksurvey.core._survey_data, a DataFrame or PyNone
  _questions_data, \* stacksurvey.core._questions_data, a dict or PyNone
  ret,             \* the last call: its name, arguments, result or exception
  program          \* what this process runs: the programs share no state

vars == <<analyzer, _survey_data, _questions_data, ret, program>>

(***************************************************************************)
(* Python values                                                           *)
(***************************************************************************)
PyNone == [py_none |-> TRUE]                    \* None, where an object is expected
None == [none |-> TRUE, list |-> <<>>]          \* Optional[List[str]] = None
List(l) == [none |-> FALSE, list |-> l]         \* Optional[List[str]] = l
Truthy(o) == ~o.none /\ o.list # <<>>           \* `if question.options:`

Null == [kind |-> "null", val |-> 0]            \* NaN / missing cell
Num(n) == [kind |-> "num", val |-> n]           \* numeric cell
Txt(s) == [kind |-> "text", val |-> s]          \* str cell

notna(v) == v.kind # "null"
IsStr(v) == v.kind = "text"                     \* isinstance(val, str)

(***************************************************************************)
(* Sequence helpers                                                        *)
(***************************************************************************)
Range(s) == {s[i] : i \in DOMAIN s}

Min2(a, b) == IF a < b THEN a ELSE b

\* the number of positions of s that hold x
Occurrences(s, x) == Cardinality({i \in DOMAIN s : s[i] = x})

RECURSIVE DistinctIn(_, _, _)
\* the distinct elements of s[lo..hi] in order of first appearance (by halves,
\* so that the depth of the evaluation is logarithmic in the length)
DistinctIn(s, lo, hi) ==
  IF lo > hi THEN <<>>
  ELSE IF lo = hi THEN <<s[lo]>>
  ELSE LET mid == (lo + hi) \div 2
           a == DistinctIn(s, lo, mid)
           b == DistinctIn(s, mid + 1, hi)
           seen == Range(a)
       IN a \o SelectSeq(b, LAMBDA x : x \notin seen)

Distinct(s) == DistinctIn(s, 1, Len(s))

(***************************************************************************)
(* str operations on text (sequences of character codes)                   *)
(***************************************************************************)
\* Python's < on str: lexicographic by code point
StrLess(a, b) ==
  \E k \in 1..(Min2(Len(a), Len(b)) + 1) :
     /\ \A j \in 1..(k - 1) : a[j] = b[j]
     /\ \/ k = Len(a) + 1 /\ k <= Len(b)
        \/ k <= Len(a) /\ k <= Len(b) /\ a[k] < b[k]

RECURSIVE InsertSorted(_, _)
InsertSorted(x, s) ==
  IF s = <<>> THEN <<x>>
  ELSE IF StrLess(x, Head(s)) THEN <<x>> \o s
       ELSE <<Head(s)>> \o InsertSorted(x, Tail(s))

RECURSIVE sorted(_)
\* sorted(list of str): ascending, stable, duplicates kept
sorted(s) == IF s = <<>> THEN <<>> ELSE InsertSorted(s[Len(s)], sorted(SubSeq(s, 1, Len(s) - 1)))

\* sorted(list(set of str))
SortedSet(S) ==
  LET F[T \in SUBSET S] ==
        IF T = {} THEN <<>>
        ELSE LET m == CHOOSE x \in T : \A y \in T \ {x} : StrLess(x, y)
             IN <<m>> \o F[T \ {m}]
  IN F[S]

LowerChar(c) == IF c >= 65 /\ c <= 90 THEN c + 32 ELSE c
lower(s) == [i \in DOMAIN s |-> LowerChar(s[i])]                \* str.lower()

\* `sub in s`
Contains(s, sub) ==
  \E i \in 0..(Len(s) - Len(sub)) : \A j \in 1..Len(sub) : s[i + j] = sub[j]

endswith(s, c) == s # <<>> /\ s[Len(s)] = c

IsSpace(c) == c = 32 \/ (c >= 9 /\ c <= 13) \/ (c >= 28 /\ c <= 31)       \* \s
IsWord(c) ==                                                              \* \w
  \/ c >= 48 /\ c <= 57
  \/ c >= 65 /\ c <= 90
  \/ c >= 97 /\ c <= 122
  \/ c = 95

\* str.strip()
strip(s) ==
  LET ns == {i \in DOMAIN s : ~IsSpace(s[i])}
  IN IF ns = {} THEN <<>>
     ELSE SubSeq(s, CHOOSE i \in ns : \A j \in ns : i <= j,
                    CHOOSE i \in ns : \A j \in ns : j <= i)

\* str.split(sep) for a one-character separator
split(s, sep) ==
  LET cuts == {i \in DOMAIN s : s[i] = sep}
      F[i \in 0..Len(s)] ==        \* the pieces of s[1..i], the last one open
        IF i = 0 THEN <<<<>>>>
        ELSE LET p == F[i - 1]
             IN IF i \in cuts THEN Append(p, <<>>)
                ELSE [p EXCEPT ![Len(p)] = Append(@, s[i])]
  IN F[Len(s)]

RECURSIVE Digits(_)
Digits(n) == IF n < 10 THEN <<48 + n>> ELSE Append(Digits(n \div 10), 48 + (n % 10))

\* str(val) of a non-null cell: a str, or an int
str(v) == IF v.kind = "num" THEN Digits(v.val) ELSE v.val

\* str(val) of a non-null value of a Series of the given dtype: the numbers of
\* a float64 Series are floats ('25.0'), those of the other dtypes are ints
StrOf(dtype, v) ==
  IF v.kind = "num" /\ dtype = "float64" THEN Digits(v.val) \o <<46, 48>> ELSE str(v)

Semicolon == 59      \* ';'
QuestionMark == 63   \* '?'
Space == 32          \* ' '

(***************************************************************************)
(* pandas Series                                                           *)
(***************************************************************************)
Series(dtype, values) == [dtype |-> dtype, values |-> values]

is_numeric_dtype(col) == col.dtype \in {"int64", "float64"}

\* Series.dropna(): the non-null values, in order
dropna(values) == SelectSeq(values, notna)

head(values, n) == SubSeq(values, 1, Min2(n, Len(values)))

\* Series.nunique(): the number of distinct non-null values
nunique(values) == Cardinality({values[i] : i \in {j \in DOMAIN values : notna(values[j])}})

\* Series.unique(): the distinct values in order of first appearance
unique(values) == Distinct(values)

(***************************************************************************)
(* pandas DataFrame: the column labels in order, the row labels (index)    *)
(* and one Series per column.  The dtypes are int64, float64 and object.   *)
(***************************************************************************)
DataFrame(columns, index, data) == [columns |-> columns, index |-> index, data |-> data]

len(df) == Len(df.index)

\* the dtype pandas infers for the cells of one sheet column: object when a
\* cell is text, else float64 when a cell is empty (NaN), else int64
InferDtype(values) ==
  IF \E i \in DOMAIN values : values[i].kind = "text" THEN "object"
  ELSE IF \E i \in DOMAIN values : values[i].kind = "null" THEN "float64"
  ELSE "int64"

\* a sheet as read_excel returns it: labels 0..n-1, inferred dtypes
Sheet(columns, cells) ==
  LET n == Len(cells[columns[1]])
  IN DataFrame(columns, [i \in 1..n |-> i - 1],
               [c \in Range(columns) |-> Series(InferDtype(cells[c]), cells[c])])

RECURSIVE Flatten(_)
Flatten(ss) == IF ss = <<>> THEN <<>> ELSE Head(ss) \o Flatten(Tail(ss))

\* pd.concat with sort=True: the columns in ascending order of their labels
concat_SortedColumns(dfs) ==
  LET columns == SortedSet(UNION {Range(dfs[k].columns) : k \in DOMAIN dfs})
      n == Len(Flatten([k \in DOMAIN dfs |-> dfs[k].index]))
      part(k, c) == IF c \in Range(dfs[k].columns) THEN dfs[k].data[c].values
                    ELSE [i \in 1..len(dfs[k]) |-> Null]
      dtype(c) == IF \E k \in DOMAIN dfs :
                       c \in Range(dfs[k].columns) /\ dfs[k].data[c].dtype = "object"
                  THEN "object"
                  ELSE IF \A k \in DOMAIN dfs :
                            c \in Range(dfs[k].columns) /\ dfs[k].data[c].dtype = "int64"
                  THEN "int64" ELSE "float64"
  IN DataFrame(columns, [i \in 1..n |-> i - 1],
               [c \in Range(columns) |->
                  Series(dtype(c), Flatten([k \in DOMAIN dfs |-> part(k, c)]))])

\* pd.concat(dfs, ignore_index=True, sort=False) of a non-empty list: the
\* columns are the union in first-seen order, the rows follow each other in
\* list order, a frame without a column contributes NaN, and the dtype of a
\* column is the common dtype of its parts (NaN parts are float64)
concat(dfs) ==
  LET columns == Distinct(Flatten([k \in DOMAIN dfs |-> dfs[k].columns]))
      n == Len(Flatten([k \in DOMAIN dfs |-> dfs[k].index]))
      part(k, c) == IF c \in Range(dfs[k].columns) THEN dfs[k].data[c].values
                    ELSE [i \in 1..len(dfs[k]) |-> Null]
      dtype(c) == IF \E k \in DOMAIN dfs :
                       c \in Range(dfs[k].columns) /\ dfs[k].data[c].dtype = "object"
                  THEN "object"
                  ELSE IF \A k \in DOMAIN dfs :
                            c \in Range(dfs[k].columns) /\ dfs[k].data[c].dtype = "int64"
                  THEN "int64" ELSE "float64"
  IN DataFrame(columns, [i \in 1..n |-> i - 1],
               [c \in Range(columns) |->
                  Series(dtype(c), Flatten([k \in DOMAIN dfs |-> part(k, c)]))])

\* df[column_name]
Column(df, c) == df.data[c]

\* df[mask]: the rows at the positions in keep, in order, labels kept
TakeRows(df, keep) ==
  LET pos == SelectSeq([i \in 1..len(df) |-> i], LAMBDA i : i \in keep)
  IN DataFrame(df.columns, [j \in DOMAIN pos |-> df.index[pos[j]]],
               [c \in Range(df.columns) |->
                  Series(df.data[c].dtype, [j \in DOMAIN pos |-> df.data[c].values[pos[j]]])])

\* row i of df as a mapping from column label to cell
Row(df, i) == [c \in Range(df.columns) |-> df.data[c].values[i]]

(***************************************************************************)
(* stackoverflow_analyzer/models.py                                        *)
(***************************************************************************)
SINGLE_CHOICE == "SC"
MULTIPLE_CHOICE == "MC"
TEXT == "TEXT"
NUMERIC == "NUMERIC"
QuestionType == {SINGLE_CHOICE, MULTIPLE_CHOICE, TEXT, NUMERIC}

Question(column_name, question_text, question_type, options) ==
  [column_name |-> column_name, question_text |-> question_text,
   question_type |-> question_type, options |-> options]

SurveyData(data, questions) == [data |-> data, questions |-> questions]

(***************************************************************************)
(* stackoverflow_analyzer/utils.py: the classifier                         *)
(***************************************************************************)
HeadSample == 100    \* column_data.dropna().head(100)
MaxUnique == 50      \* unique_count < 50

HasSemicolon(v) == Contains(str(v), <<Semicolon>>)       \* ';' in str(val)

\* unique_count / total_count < 0.2, in integers: the quotient of two counts
\* below 2^53 rounds to a double below 0.2 exactly when 5 * unique < total
BelowFifth(unique_count, total_count) == unique_count * 5 < total_count

\* detect_question_type without its last return: Python returns None
detect_question_type_NoDefault(column_data, column_name) ==
  IF is_numeric_dtype(column_data) THEN NUMERIC
  ELSE LET sample_values == head(dropna(column_data.values), HeadSample)
           unique_count == nunique(column_data.values)
           total_count == Len(dropna(column_data.values))
       IN IF \E i \in DOMAIN sample_values : HasSemicolon(sample_values[i])
          THEN MULTIPLE_CHOICE
          ELSE IF /\ total_count > 0
                  /\ BelowFifth(unique_count, total_count)
                  /\ unique_count < MaxUnique
               THEN SINGLE_CHOICE
               ELSE "None"

\* detect_question_type without the limit on the number of distinct values
detect_question_type_NoLimit(column_data, column_name) ==
  IF is_numeric_dtype(column_data) THEN NUMERIC
  ELSE LET sample_values == head(dropna(column_data.values), HeadSample)
           unique_count == nunique(column_data.values)
           total_count == Len(dropna(column_data.values))
       IN IF \E i \in DOMAIN sample_values : HasSemicolon(sample_values[i])
          THEN MULTIPLE_CHOICE
          ELSE IF total_count > 0 /\ BelowFifth(unique_count, total_count)
               THEN SINGLE_CHOICE
               ELSE TEXT

detect_question_type(column_data, column_name) ==
  IF is_numeric_dtype(column_data) THEN NUMERIC
  ELSE LET sample_values == head(dropna(column_data.values), HeadSample)
           unique_count == nunique(column_data.values)
           total_count == Len(dropna(column_data.values))
       IN IF \E i \in DOMAIN sample_values : HasSemicolon(sample_values[i])
          THEN MULTIPLE_CHOICE
          ELSE IF /\ total_count > 0
                  /\ BelowFifth(unique_count, total_count)
                  /\ unique_count < MaxUnique
               THEN SINGLE_CHOICE
               ELSE TEXT

\* [opt.strip() for opt in str(value).split(';')]
Tokens(v) == LET parts == split(str(v), Semicolon)
             IN [k \in DOMAIN parts |-> strip(parts[k])]

\* extract_question_options with an empty list, not None, for the other types
extract_question_options_EmptyList(column_data, question_type) ==
  IF question_type = SINGLE_CHOICE
  THEN LET options == unique(dropna(column_data.values))
           kept == SelectSeq(options, LAMBDA opt : opt # Txt(<<>>))
       IN List(sorted([k \in DOMAIN kept |-> str(kept[k])]))
  ELSE IF question_type = MULTIPLE_CHOICE
  THEN LET values == dropna(column_data.values)
           all_options == UNION {Range(Tokens(values[i])) :
                                   i \in {j \in DOMAIN values : HasSemicolon(values[j])}}
       IN List(SortedSet(all_options))
  ELSE List(<<>>)

extract_question_options(column_data, question_type) ==
  IF question_type = SINGLE_CHOICE
  THEN LET options == unique(dropna(column_data.values))
           kept == SelectSeq(options, LAMBDA opt : opt # Txt(<<>>))
       IN List(sorted([k \in DOMAIN kept |-> str(kept[k])]))
  ELSE IF question_type = MULTIPLE_CHOICE
  THEN LET values == dropna(column_data.values)
           all_options == UNION {Range(Tokens(values[i])) :
                                   i \in {j \in DOMAIN values : HasSemicolon(values[j])}}
       IN List(SortedSet(all_options))
  ELSE None

\* re.sub(r'[^\w\s]', ' ', column_name), re.sub(r'\s+', ' ', ...), strip()
clean_column_name(column_name) ==
  LET cleaned == [i \in DOMAIN column_name |->
                    IF IsWord(column_name[i]) \/ IsSpace(column_name[i])
                    THEN column_name[i] ELSE Space]
      F[i \in 0..Len(cleaned)] ==       \* runs of whitespace become one space
        IF i = 0 THEN <<>>
        ELSE IF IsSpace(cleaned[i])
             THEN IF i > 1 /\ IsSpace(cleaned[i - 1]) THEN F[i - 1]
                  ELSE Append(F[i - 1], Space)
             ELSE Append(F[i - 1], cleaned[i])
  IN strip(F[Len(cleaned)])

generate_question_text(column_name) ==
  LET text == clean_column_name(column_name)
  IN IF endswith(text, QuestionMark) THEN text ELSE Append(text, QuestionMark)

(***************************************************************************)
(* stacksurvey/core.py: the classifier                                     *)
(***************************************************************************)
_get_question_type(df, column) ==
  LET values == dropna(Column(df, column).values)
  IN IF Len(values) = 0 THEN "SC"
     ELSE IF \E i \in DOMAIN values : HasSemicolon(values[i]) THEN "MC"
     ELSE "SC"

(***************************************************************************)
(* The files a load can name.  survey.xlsx is the fixture of               *)
(* tests/test_analyzer.py with one answer column more; extra.xlsx has      *)
(* other columns, repeated answers, empty text, a number beside its text   *)
(* form, numbers beside a word, an empty column and                        *)
(* multiple-choice cells with and without ';'; big.xlsx has more rows than *)
(* the classifier samples and as many distinct answers as it allows.       *)
(***************************************************************************)
MaxPaths == 2        \* the longest list of paths a load is given
BigRows == 306       \* the rows of big.xlsx

Paths == {"survey.xlsx", "extra.xlsx", "missing.xlsx", "broken.xlsx"}
BigPath == "big.xlsx"

cAge == <<65, 103, 101>>                                      \* 'Age'
cCountry == <<67, 111, 117, 110, 116, 114, 121>>              \* 'Country'
cLanguages == <<76, 97, 110, 103, 117, 97, 103, 101, 115>>    \* 'Languages'
cDevType == <<68, 101, 118, 45, 84, 121, 112, 101>>           \* 'Dev-Type'
cS == <<83>>                                                  \* 'S'
cT == <<84>>                                                  \* 'T'
cX == <<88>>                                                  \* 'X'
cE == <<69>>                                                  \* 'E'
cY == <<89>>                                                  \* 'Y'
cM == <<77>>                                                  \* 'M'
cW == <<87>>                                                  \* 'W'
cV == <<86>>                                                  \* 'V'

sUSA == <<85, 83, 65>>
sCanada == <<67, 97, 110, 97, 100, 97>>
sUK == <<85, 75>>
sGermany == <<71, 101, 114, 109, 97, 110, 121>>
sPython == <<80, 121, 116, 104, 111, 110>>
sJavaScript == <<74, 97, 118, 97, 83, 99, 114, 105, 112, 116>>
sJava == <<74, 97, 118, 97>>
sCpp == <<67, 43, 43>>                                        \* 'C++'
sR == <<82>>
sA == <<65>>
sB == <<66>>
sC == <<67>>
sD == <<68>>
TestColumn == <<84, 101, 115, 116, 67, 111, 108, 117, 109, 110>>   \* 'TestColumn'
sOne == <<49>>                                                \* '1'

Joined(a, b) == a \o <<Semicolon>> \o b                       \* a + ';' + b

SurveySheet ==
  Sheet(<<cAge, cCountry, cLanguages, cS>>,
        [c \in {cAge, cCountry, cLanguages, cS} |->
           IF c = cAge THEN <<Num(25), Num(30), Num(35), Num(28), Num(32)>>
           ELSE IF c = cS THEN <<Txt(sA), Txt(sA), Txt(sA), Txt(sA), Txt(sA)>>
           ELSE IF c = cCountry
           THEN <<Txt(sUSA), Txt(sCanada), Txt(sUK), Txt(sUSA), Txt(sGermany)>>
           ELSE <<Txt(Joined(sPython, sJavaScript)), Txt(Joined(sJava, sCpp)),
                  Txt(Joined(sPython, sR)), Txt(sJavaScript),
                  Txt(Joined(Joined(sPython, sJava), sCpp))>>])

ExtraSheet ==
  Sheet(<<cAge, cS, cT, cX, cDevType, cE, cY>>,
        [c \in {cAge, cS, cT, cX, cDevType, cE, cY} |->
           IF c = cAge THEN <<Num(40), Null, Num(41), Num(40), Num(42), Num(25)>>
           ELSE IF c = cS THEN <<Txt(sA), Txt(sA), Txt(sA), Txt(sA), Txt(sA), Txt(sA)>>
           ELSE IF c = cT THEN <<Txt(<<>>), Txt(<<>>), Txt(<<>>), Txt(<<>>), Txt(<<>>), Txt(sB)>>
           ELSE IF c = cX THEN <<Num(1), Num(1), Num(1), Num(1), Num(1), Txt(sOne)>>
           ELSE IF c = cY THEN <<Num(2), Num(2), Num(2), Num(2), Num(2), Txt(sB)>>
           ELSE IF c = cDevType
           THEN <<Txt(Joined(sA, sB)), Txt(sD), Txt(Joined(sA, <<Space>> \o sB)),
                  Txt(Joined(sA, sA)), Null, Txt(Joined(sB, sC))>>
           ELSE <<Null, Null, Null, Null, Null, Null>>])

BigSheet ==
  Sheet(<<cM, cW, cV>>,
        [c \in {cM, cW, cV} |->
           IF c = cM
           THEN [i \in 1..BigRows |-> IF i = HeadSample + 1 THEN Txt(Joined(sB, sC)) ELSE Txt(sA)]
           ELSE IF c = cW
           THEN [i \in 1..BigRows |-> Txt(<<65 + ((i - 1) % MaxUnique)>>)]
           ELSE [i \in 1..BigRows |-> Txt(<<65 + ((i - 1) % (MaxUnique - 1))>>)]])

exists(path) == path # "missing.xlsx"                          \* os.path.exists
Parses(path) == path \in {"survey.xlsx", "extra.xlsx", "big.xlsx"}

\* pd.read_excel(path) of a path that exists and parses
read_excel(path) ==
  IF path = "survey.xlsx" THEN SurveySheet
  ELSE IF path = "extra.xlsx" THEN ExtraSheet
  ELSE BigSheet

\* the terms a search is given: none, a column name in another case, an
\* option in another case, a part of two options, a display text that is no
\* column name, one that occurs nowhere, and a letter that occurs in names
\* and in options of several questions
SearchTerms ==
  { <<>>,
    <<65>>,                                          \* 'A'
    <<74, 97, 118, 97>>,                             \* 'Java'
    <<65, 71, 69>>,                                  \* 'AGE'
    <<112, 121, 116, 104, 111, 110>>,                \* 'python'
    <<100, 101, 118, 32, 116, 121, 112, 101>>,       \* 'dev type'
    <<122, 122>> }                                   \* 'zz'

\* the column names a filter or a distribution is asked for: five columns of
\* the workbooks and one that no workbook has
QuestionColumns == {cAge, cCountry, cLanguages, cDevType, cX, <<122, 122>>}

\* the answers a filter is given: an answer of a single-choice column, of a
\* multiple-choice column, a token written after a blank, a token a cell
\* repeats, a number, the same number as text, and an answer nobody gave
OptionCells ==
  {Txt(sUSA), Txt(sPython), Txt(sB), Txt(sA), Num(25), Txt(<<50, 53>>), Num(1), Txt(<<122, 122>>)}
OptionLists ==
  {<<>>, <<Txt(sUSA), Txt(sCanada)>>, <<Txt(sB), Txt(sPython)>>} \cup {<<o>> : o \in OptionCells}

\* the Series the utility functions are called with directly, as the unit
\* tests call them: the fixtures of tests/test_utils.py, an empty Series and
\* a Series of None
DirectSeries ==
  { Series("int64", <<Num(1), Num(2), Num(3), Num(4), Num(5)>>),
    Series("object", <<Txt(Joined(sA, sB)), Txt(Joined(sB, sC)), Txt(Joined(sA, sC)), Txt(sA)>>),
    Series("object", [i \in 1..50 |-> IF i % 5 \in {2, 4} THEN Txt(sB) ELSE Txt(sA)]),
    Series("object", <<Txt(sA), Txt(sB), Txt(sC), Txt(sD)>>),
    Series("object", <<Txt(sA), Txt(sB), Txt(sC), Txt(sA), Txt(sB)>>),
    Series("object", <<>>),
    Series("object", <<Null, Null>>) }

\* the column names clean_column_name and generate_question_text are given
\* directly: 'Test_Column-Name!' and 'Test   Multiple    Spaces' of the
\* tests, 'Dev-Type' and ' Why? '
ColumnNames ==
  { <<84, 101, 115, 116, 95, 67, 111, 108, 117, 109, 110, 45, 78, 97, 109, 101, 33>>,
    <<84, 101, 115, 116, 32, 32, 32, 77, 117, 108, 116, 105, 112, 108, 101, 32, 32, 32, 32, 83, 112, 97, 99, 101, 115>>,
    <<68, 101, 118, 45, 84, 121, 112, 101>>,
    <<32, 87, 104, 121, 63, 32>> }

\* the lists of paths a load is given: big.xlsx is loaded on its own
PathLists == UNION {[1..n -> Paths] : n \in 0..MaxPaths} \cup {<<BigPath>>}

Return(value) == [raised |-> "", value |-> value]
Raise(exception) == [raised |-> exception, value |-> PyNone]

\* the frames of the paths of file_paths that read_excel reads, in order
Readable(file_paths) ==
  LET F[i \in 0..Len(file_paths)] ==
        IF i = 0 THEN <<>>
        ELSE IF exists(file_paths[i]) /\ Parses(file_paths[i])
             THEN Append(F[i - 1], read_excel(file_paths[i])) ELSE F[i - 1]
  IN F[Len(file_paths)]

(***************************************************************************)
(* stackoverflow_analyzer/utils.py: load_survey_data                       *)
(***************************************************************************)
load_survey_data(file_paths) ==
  LET all_dataframes == Readable(file_paths)     \* a path that raises is skipped
  IN IF all_dataframes = <<>> THEN Raise("ValueError")
     ELSE LET combined_df == concat(all_dataframes)
              questions ==
                [k \in DOMAIN combined_df.columns |->
                   LET column_name == combined_df.columns[k]
                       question_type == detect_question_type(Column(combined_df, column_name), column_name)
                   IN Question(column_name,
                               generate_question_text(column_name),
                               question_type,
                               extract_question_options(Column(combined_df, column_name),
                                                        question_type))]
          IN Return(SurveyData(combined_df, questions))

(***************************************************************************)
(* stacksurvey/core.py: load_data                                          *)
(***************************************************************************)
Dict(keys, at) == [keys |-> keys, at |-> at]       \* a dict, in insertion order

load_data(file_paths) ==
  IF file_paths = <<>> THEN Raise("ValueError")
  ELSE IF \E i \in DOMAIN file_paths : ~exists(file_paths[i]) THEN Raise("FileNotFoundError")
  ELSE IF \E i \in DOMAIN file_paths : ~Parses(file_paths[i]) THEN Raise("Exception")
  ELSE Return(concat(Readable(file_paths)))

(***************************************************************************)
(* stackoverflow_analyzer/utils.py: search                                 *)
(***************************************************************************)
\* the hit test of search_questions for one question
QuestionMatches(question, search_term) ==
  \/ Contains(lower(question.question_text), search_term)
  \/ Contains(lower(question.column_name), search_term)
  \/ /\ Truthy(question.options)
     /\ \E k \in DOMAIN question.options.list :
          Contains(lower(question.options.list[k]), search_term)

\* search_questions that looks at the text and the column name only
search_questions_NoOptions(questions, search_term) ==
  LET term == lower(search_term)
  IN SelectSeq(questions, LAMBDA question :
                 \/ Contains(lower(question.question_text), term)
                 \/ Contains(lower(question.column_name), term))

\* search_questions without lower-casing the term
search_questions_TermAsGiven(questions, search_term) ==
  SelectSeq(questions, LAMBDA question : QuestionMatches(question, search_term))

search_questions(questions, search_term) ==
  LET term == lower(search_term)
  IN SelectSeq(questions, LAMBDA question : QuestionMatches(question, term))

\* search_options that reports every option of a question with a match
search_options_AllOptions(questions, search_term) ==
  LET term == lower(search_term)
      matching_options(question) ==
        SelectSeq(question.options.list, LAMBDA opt : Contains(lower(opt), term))
      hits == SelectSeq(questions,
                        LAMBDA question : /\ Truthy(question.options)
                                          /\ matching_options(question) # <<>>)
  IN [k \in DOMAIN hits |-> <<hits[k], hits[k].options.list>>]

search_options(questions, search_term) ==
  LET term == lower(search_term)
      matching_options(question) ==
        SelectSeq(question.options.list, LAMBDA opt : Contains(lower(opt), term))
      hits == SelectSeq(questions,
                        LAMBDA question : /\ Truthy(question.options)
                                          /\ matching_options(question) # <<>>)
  IN [k \in DOMAIN hits |-> <<hits[k], matching_options(hits[k])>>]

(***************************************************************************)
(* stacksurvey/core.py: search                                             *)
(***************************************************************************)
NoArg == [given |-> FALSE, text |-> <<>>]          \* the argument left at None
Arg(text) == [given |-> TRUE, text |-> text]
StrTruthy(a) == a.given /\ a.text # <<>>           \* `if question:`

_get_unique_options(survey_data, questions_data, column) ==
  LET col == Column(survey_data, column)
      values == dropna(col.values)
  IN IF questions_data.at[column] = "MC"
     THEN SortedSet(UNION {Range(split(values[i].val, Semicolon)) :
                             i \in {j \in DOMAIN values : IsStr(values[j])}})
     ELSE SortedSet({StrOf(col.dtype, values[i]) : i \in DOMAIN values})

search(survey_data, questions_data, question, option) ==
  IF survey_data = PyNone THEN Raise("RuntimeError")
  ELSE LET qs == IF StrTruthy(question)
                 THEN SelectSeq(survey_data.columns,
                                LAMBDA col : Contains(lower(col), lower(question.text)))
                 ELSE <<>>
           matches(col) ==
             LET unique_values == _get_unique_options(survey_data, questions_data, col)
                 idx == SelectSeq([i \in DOMAIN unique_values |-> i],
                                  LAMBDA i : Contains(lower(unique_values[i]), lower(option.text)))
             IN [k \in DOMAIN idx |-> <<col, unique_values[idx[k]], idx[k] - 1>>]
           os == IF StrTruthy(option)
                 THEN Flatten([k \in DOMAIN survey_data.columns |-> matches(survey_data.columns[k])])
                 ELSE <<>>
       IN Return([questions |-> qs, options |-> os])

\* list_questions without the test for a loaded table: no questions
list_questions_Unchecked(survey_data, questions_data) ==
  Return(IF questions_data = PyNone THEN Dict(<<>>, <<>>) ELSE questions_data)

list_questions(survey_data, questions_data) ==
  IF survey_data = PyNone THEN Raise("RuntimeError") ELSE Return(questions_data)

(***************************************************************************)
(* stackoverflow_analyzer/models.py, analyzer.py: the queries              *)
(***************************************************************************)
\* SurveyData.get_question(column_name): the Question, or PyNone
get_question(survey_data, column_name) ==
  LET found == SelectSeq(survey_data.questions, LAMBDA q : q.column_name = column_name)
  IN IF found = <<>> THEN PyNone ELSE found[Len(found)]

\* get_questions_by_type that does not look at the type
get_questions_by_type_AllQuestions(survey_data, question_type) == survey_data.questions

\* SurveyData.get_questions_by_type(question_type)
get_questions_by_type(survey_data, question_type) ==
  SelectSeq(survey_data.questions, LAMBDA q : q.question_type = question_type)

\* SurveyData.respondent_count and SurveyData.question_count
respondent_count(survey_data) == len(survey_data.data)
question_count(survey_data) == Len(survey_data.questions)

\* a quotient of two counts, kept exact
Ratio(num, den) == [num |-> num, den |-> den]

\* get_answer_distribution that counts the rows of the whole table
get_answer_distribution_TotalOfTable(survey_data, question_column, subset_df) ==
  LET question == get_question(survey_data, question_column)
      data_to_analyze == IF subset_df # PyNone THEN subset_df ELSE survey_data.data
  IN IF question = PyNone THEN Raise("ValueError")
     ELSE IF question_column \notin Range(data_to_analyze.columns) THEN Raise("ValueError")
     ELSE
       LET total_responses == len(survey_data.data)
           values == dropna(Column(data_to_analyze, question_column).values)
           valid_responses == Len(values)
           all_options ==
             Flatten([i \in DOMAIN values |->
                        IF HasSemicolon(values[i]) THEN Tokens(values[i]) ELSE <<>>])
           counted == IF question.question_type = MULTIPLE_CHOICE THEN all_options ELSE values
           distribution == [x \in Range(counted) |-> Occurrences(counted, x)]
       IN Return([question |-> question,
                  total_responses |-> total_responses,
                  valid_responses |-> valid_responses,
                  response_rate |-> IF total_responses > 0
                                    THEN Ratio(valid_responses * 100, total_responses)
                                    ELSE Ratio(0, 1),
                  distribution |-> distribution,
                  percentages |-> [x \in Range(counted) |->
                                     Ratio(distribution[x] * 100, valid_responses)]])

\* get_answer_distribution with the percentages taken of all rows
get_answer_distribution_OverTotal(survey_data, question_column, subset_df) ==
  LET question == get_question(survey_data, question_column)
      data_to_analyze == IF subset_df # PyNone THEN subset_df ELSE survey_data.data
  IN IF question = PyNone THEN Raise("ValueError")
     ELSE IF question_column \notin Range(data_to_analyze.columns) THEN Raise("ValueError")
     ELSE
       LET total_responses == len(data_to_analyze)
           values == dropna(Column(data_to_analyze, question_column).values)
           valid_responses == Len(values)
           all_options ==
             Flatten([i \in DOMAIN values |->
                        IF HasSemicolon(values[i]) THEN Tokens(values[i]) ELSE <<>>])
           counted == IF question.question_type = MULTIPLE_CHOICE THEN all_options ELSE values
           distribution == [x \in Range(counted) |-> Occurrences(counted, x)]
       IN Return([question |-> question,
                  total_responses |-> total_responses,
                  valid_responses |-> valid_responses,
                  response_rate |-> IF total_responses > 0
                                    THEN Ratio(valid_responses * 100, total_responses)
                                    ELSE Ratio(0, 1),
                  distribution |-> distribution,
                  percentages |-> [x \in Range(counted) |->
                                     Ratio(distribution[x] * 100, total_responses)]])

\* StackOverflowAnalyzer.get_answer_distribution(question_column, subset_df);
\* subset_df is a DataFrame or PyNone.  The labels of the distribution are
\* texts for a multiple-choice question and cells for the other types; a
\* percentage is the exact quotient count * 100 / valid_responses.
get_answer_distribution(survey_data, question_column, subset_df) ==
  LET question == get_question(survey_data, question_column)
      data_to_analyze == IF subset_df # PyNone THEN subset_df ELSE survey_data.data
  IN IF question = PyNone THEN Raise("ValueError")
     ELSE IF question_column \notin Range(data_to_analyze.columns) THEN Raise("ValueError")
     ELSE
       LET total_responses == len(data_to_analyze)
           values == dropna(Column(data_to_analyze, question_column).values)
           valid_responses == Len(values)
           all_options ==
             Flatten([i \in DOMAIN values |->
                        IF HasSemicolon(values[i]) THEN Tokens(values[i]) ELSE <<>>])
           counted == IF question.question_type = MULTIPLE_CHOICE THEN all_options ELSE values
           distribution == [x \in Range(counted) |-> Occurrences(counted, x)]
       IN Return([question |-> question,
                  total_responses |-> total_responses,
                  valid_responses |-> valid_responses,
                  response_rate |-> IF total_responses > 0
                                    THEN Ratio(valid_responses * 100, total_responses)
                                    ELSE Ratio(0, 1),
                  distribution |-> distribution,
                  percentages |-> [x \in Range(counted) |->
                                     Ratio(distribution[x] * 100, valid_responses)]])

\* create_subset that compares the answers by their text
create_subset_ByText(survey_data, question_column, option_values) ==
  LET question == get_question(survey_data, question_column)
      data == survey_data.data
  IN IF question = PyNone THEN Raise("ValueError")
     ELSE IF question_column \notin Range(data.columns) THEN Raise("ValueError")
     ELSE
       LET values == Column(data, question_column).values
           texts == {str(option_values[k]) : k \in DOMAIN option_values}
           mask == IF question.question_type = MULTIPLE_CHOICE
                   THEN {idx \in DOMAIN values :
                           /\ notna(values[idx])
                           /\ \E k \in DOMAIN Tokens(values[idx]) :
                                Tokens(values[idx])[k] \in texts}
                   ELSE {idx \in DOMAIN values :
                           notna(values[idx]) /\ str(values[idx]) \in texts}
       IN Return(TakeRows(data, mask))

\* create_subset that returns the asked column only
create_subset_ColumnOnly(survey_data, question_column, option_values) ==
  LET question == get_question(survey_data, question_column)
      data == survey_data.data
  IN IF question = PyNone THEN Raise("ValueError")
     ELSE IF question_column \notin Range(data.columns) THEN Raise("ValueError")
     ELSE
       LET values == Column(data, question_column).values
           mask == IF question.question_type = MULTIPLE_CHOICE
                   THEN {idx \in DOMAIN values :
                           /\ notna(values[idx])
                           /\ \E k \in DOMAIN Tokens(values[idx]) :
                                Txt(Tokens(values[idx])[k]) \in Range(option_values)}
                   ELSE {idx \in DOMAIN values :
                           notna(values[idx]) /\ values[idx] \in Range(option_values)}
           subset == TakeRows(data, mask)
       IN Return(DataFrame(<<question_column>>, subset.index,
                           [c \in {question_column} |-> subset.data[c]]))

\* create_subset that answers an unknown question with an empty table
create_subset_UnknownIsEmpty(survey_data, question_column, option_values) ==
  LET question == get_question(survey_data, question_column)
      data == survey_data.data
  IN IF question = PyNone THEN Return(TakeRows(data, {}))
     ELSE IF question_column \notin Range(data.columns) THEN Raise("ValueError")
     ELSE
       LET values == Column(data, question_column).values
           mask == IF question.question_type = MULTIPLE_CHOICE
                   THEN {idx \in DOMAIN values :
                           /\ notna(values[idx])
                           /\ \E k \in DOMAIN Tokens(values[idx]) :
                                Txt(Tokens(values[idx])[k]) \in Range(option_values)}
                   ELSE {idx \in DOMAIN values :
                           notna(values[idx]) /\ values[idx] \in Range(option_values)}
       IN Return(TakeRows(data, mask))

\* StackOverflowAnalyzer.create_subset(question_column, option_values);
\* option_values is a list of cells (texts, numbers)
create_subset(survey_data, question_column, option_values) ==
  LET question == get_question(survey_data, question_column)
      data == survey_data.data
  IN IF question = PyNone THEN Raise("ValueError")
     ELSE IF question_column \notin Range(data.columns) THEN Raise("ValueError")
     ELSE
       LET values == Column(data, question_column).values
           mask == IF question.question_type = MULTIPLE_CHOICE
                   THEN {idx \in DOMAIN values :
                           /\ notna(values[idx])
                           /\ \E k \in DOMAIN Tokens(values[idx]) :
                                Txt(Tokens(values[idx])[k]) \in Range(option_values)}
                   ELSE {idx \in DOMAIN values :           \* Series.isin
                           notna(values[idx]) /\ values[idx] \in Range(option_values)}
       IN Return(TakeRows(data, mask))

\* stacksurvey.core.filter_respondents(question, option); option is a cell
filter_respondents(survey_data, questions_data, question, option) ==
  IF survey_data = PyNone THEN Raise("RuntimeError")
  ELSE IF question \notin Range(survey_data.columns) THEN Raise("ValueError")
  ELSE
    LET values == Column(survey_data, question).values
        mask == IF questions_data.at[question] = "MC"
                THEN {i \in DOMAIN values :
                        /\ IsStr(values[i])
                        /\ option \in {Txt(t) : t \in Range(split(values[i].val, Semicolon))}}
                ELSE {i \in DOMAIN values : notna(values[i]) /\ values[i] = option}
    IN Return(TakeRows(survey_data, mask))

\* compute_distribution with the tokens' counts divided by the number of
\* respondents
compute_distribution_PerRespondent(survey_data, questions_data, question) ==
  IF survey_data = PyNone THEN Raise("RuntimeError")
  ELSE IF question \notin Range(survey_data.columns) THEN Raise("ValueError")
  ELSE
    LET options_series == dropna(Column(survey_data, question).values)
        all_selections ==
          Flatten([i \in DOMAIN options_series |->
                     IF IsStr(options_series[i])
                     THEN split(options_series[i].val, Semicolon) ELSE <<>>])
        counted == IF questions_data.at[question] = "MC"
                   THEN all_selections ELSE options_series
    IN Return([x \in Range(counted) |->
                 Ratio(Occurrences(counted, x), Len(options_series))])

\* stacksurvey.core.compute_distribution(question): the shares as exact
\* quotients, keyed by token for an 'MC' question and by cell otherwise
compute_distribution(survey_data, questions_data, question) ==
  IF survey_data = PyNone THEN Raise("RuntimeError")
  ELSE IF question \notin Range(survey_data.columns) THEN Raise("ValueError")
  ELSE
    LET options_series == dropna(Column(survey_data, question).values)
        all_selections ==
          Flatten([i \in DOMAIN options_series |->
                     IF IsStr(options_series[i])
                     THEN split(options_series[i].val, Semicolon) ELSE <<>>])
        counted == IF questions_data.at[question] = "MC"
                   THEN all_selections ELSE options_series
    IN Return([x \in Range(counted) |-> Ratio(Occurrences(counted, x), Len(counted))])

\* the outcome of each load the model issues, evaluated once
SurveyLoads == [file_paths \in PathLists |-> load_survey_data(file_paths)] @@ <<>>
CoreLoads == [file_paths \in PathLists |-> load_data(file_paths)] @@ <<>>
\* a load_data that leaves _questions_data unset
CoreQuestions_Unset == [file_paths \in PathLists |-> PyNone]

\* the dict of question types load_data stores beside a loaded table
CoreQuestions ==
  [file_paths \in PathLists |->
     IF CoreLoads[file_paths].raised # "" THEN PyNone
     ELSE LET combined_df == CoreLoads[file_paths].value
          IN Dict(combined_df.columns,
                  [col \in Range(combined_df.columns) |->
                     _get_question_type(combined_df, col)])] @@ <<>>

(***************************************************************************)
(* stacksurvey/__main__.py: the command line.  An outcome holds the exit   *)
(* code, the lines written to sys.stdout and to sys.stderr, each line by   *)
(* its fixed text, and the two module handles after the call.              *)
(***************************************************************************)
Outcome(code, stdout, stderr, survey_data, questions_data) ==
  [code |-> code, stdout |-> stdout, stderr |-> stderr,
   survey_data |-> survey_data, questions_data |-> questions_data]

\* parsed arguments; an option that was not given is NoArg, files is a list
Namespace(command, files, question, option, output) ==
  [command |-> command, files |-> files, question |-> question,
   option |-> option, output |-> output]

\* argparse accepts the arguments: `files` is nargs="+", --question and
\* --option are required by filter, --question by distribution
Accepted(args) ==
  /\ args.command = "load" => args.files # <<>>
  /\ args.command = "filter" => args.question.given /\ args.option.given
  /\ args.command = "distribution" => args.question.given

OutCsv == <<111, 117, 116, 46, 99, 115, 118>>                   \* 'out.csv'
NoDirOutCsv == <<110, 111, 47, 111, 117, 116, 46, 99, 115, 118>>   \* 'no/out.csv'

\* DataFrame.to_csv(path) can write the file
Writable(path) == path # NoDirOutCsv

handle_load(survey_data, questions_data, args) ==
  LET r == CoreLoads[args.files]                  \* load_data(args.files)
  IN IF r.raised = ""
     THEN Outcome(0, <<"Successfully loaded">>, <<>>, r.value, CoreQuestions[args.files])
     ELSE Outcome(1, <<>>, <<"Error loading data">>, survey_data, questions_data)

handle_list_questions(survey_data, questions_data, args) ==
  LET r == list_questions(survey_data, questions_data)
  IN IF r.raised = ""
     THEN Outcome(0, [k \in DOMAIN r.value.keys |-> "question"], <<>>,
                  survey_data, questions_data)
     ELSE Outcome(1, <<>>, <<"Error listing questions">>, survey_data, questions_data)

handle_search(survey_data, questions_data, args) ==
  LET r == search(survey_data, questions_data, args.question, args.option)
  IN IF r.raised = ""
     THEN Outcome(0,
                  (IF r.value.questions # <<>>
                   THEN <<"Matching questions:">> \o
                        [k \in DOMAIN r.value.questions |-> "question"]
                   ELSE <<>>) \o
                  (IF r.value.options # <<>>
                   THEN <<"Matching options:">> \o
                        [k \in DOMAIN r.value.options |-> "option"]
                   ELSE <<>>) \o
                  (IF r.value.questions = <<>> /\ r.value.options = <<>>
                   THEN <<"No matches found.">> ELSE <<>>),
                  <<>>, survey_data, questions_data)
     ELSE Outcome(1, <<>>, <<"Error searching">>, survey_data, questions_data)

\* handle_filter that reports success whatever happens
handle_filter_AlwaysZero(survey_data, questions_data, args) ==
  LET r == filter_respondents(survey_data, questions_data,
                              args.question.text, Txt(args.option.text))
  IN IF r.raised # ""
     THEN Outcome(0, <<>>, <<"Error filtering">>, survey_data, questions_data)
     ELSE IF ~args.output.given
     THEN Outcome(0, <<"Filtered data">>, <<>>, survey_data, questions_data)
     ELSE IF Writable(args.output.text)
     THEN Outcome(0, <<"Filtered data", "Results saved">>, <<>>, survey_data, questions_data)
     ELSE Outcome(0, <<"Filtered data">>, <<"Error filtering">>, survey_data, questions_data)

handle_filter(survey_data, questions_data, args) ==
  LET r == filter_respondents(survey_data, questions_data,
                              args.question.text, Txt(args.option.text))
  IN IF r.raised # ""
     THEN Outcome(1, <<>>, <<"Error filtering">>, survey_data, questions_data)
     ELSE IF ~args.output.given
     THEN Outcome(0, <<"Filtered data">>, <<>>, survey_data, questions_data)
     ELSE IF Writable(args.output.text)
     THEN Outcome(0, <<"Filtered data", "Results saved">>, <<>>, survey_data, questions_data)
     ELSE Outcome(1, <<"Filtered data">>, <<"Error filtering">>, survey_data, questions_data)

handle_distribution(survey_data, questions_data, args) ==
  LET r == compute_distribution(survey_data, questions_data, args.question.text)
  IN IF r.raised = ""
     THEN Outcome(0, <<"Distribution for">> \o
                     [k \in 1..Cardinality(DOMAIN r.value) |-> "option"],
                  <<>>, survey_data, questions_data)
     ELSE Outcome(1, <<>>, <<"Error computing distribution">>, survey_data, questions_data)

\* main(args): SystemExit when argparse rejects the arguments
main(survey_data, questions_data, args) ==
  IF ~Accepted(args) THEN Raise("SystemExit")
  ELSE IF args.command = "load" THEN Return(handle_load(survey_data, questions_data, args))
  ELSE IF args.command = "list-questions"
  THEN Return(handle_list_questions(survey_data, questions_data, args))
  ELSE IF args.command = "search" THEN Return(handle_search(survey_data, questions_data, args))
  ELSE IF args.command = "filter" THEN Return(handle_filter(survey_data, questions_data, args))
  ELSE IF args.command = "distribution"
  THEN Return(handle_distribution(survey_data, questions_data, args))
  ELSE Return(Outcome(1, <<>>, <<"Please specify a command.">>, survey_data, questions_data))

\* the command lines the model runs: each command with arguments for which
\* it succeeds and for which it fails, a filter that cannot save its result,
\* a filter without its required options and an invocation without command
CommandLines ==
  {Namespace("load", files, NoArg, NoArg, NoArg) :
     files \in {<<"survey.xlsx">>, <<"missing.xlsx">>, <<"broken.xlsx">>,
                <<"survey.xlsx", "extra.xlsx">>}}
  \cup {Namespace("list-questions", <<>>, NoArg, NoArg, NoArg)}
  \cup {Namespace("search", <<>>, question, option, NoArg) :
          question \in {NoArg, Arg(<<65, 71, 69>>)},
          option \in {NoArg, Arg(<<112, 121, 116, 104, 111, 110>>)}}
  \cup {Namespace("filter", <<>>, Arg(question), Arg(sUSA), output) :
          question \in {cCountry, <<122, 122>>},
          output \in {NoArg, Arg(OutCsv), Arg(NoDirOutCsv)}}
  \cup {Namespace("filter", <<>>, NoArg, NoArg, NoArg),
        Namespace("distribution", <<>>, Arg(cLanguages), NoArg, NoArg),
        Namespace("distribution", <<>>, Arg(<<122, 122>>), NoArg, NoArg),
        Namespace("", <<>>, NoArg, NoArg, NoArg)}

(***************************************************************************)
(* The operations                                                          *)
(***************************************************************************)
Call(op, args, result) ==
  [op |-> op, args |-> args, raised |-> result.raised, value |-> result.value]

\* what a process runs: the functions of utils.py on their own, an analyzer,
\* the functions of stacksurvey.core, or the command line of stacksurvey
Programs == {"stackoverflow_analyzer.utils", "stackoverflow_analyzer",
             "stacksurvey", "stacksurvey.__main__"}

Init ==
  /\ program \in Programs
  /\ analyzer = PyNone
  /\ _survey_data = PyNone
  /\ _questions_data = PyNone
  /\ ret = Call("import", <<>>, Return(PyNone))

\* StackOverflowAnalyzer(file_paths): __init__ runs once on the instance
NewAnalyzer(file_paths) ==
  /\ program = "stackoverflow_analyzer"
  /\ analyzer = PyNone
  /\ LET r == SurveyLoads[file_paths]
     IN /\ analyzer' = IF r.raised = "" THEN r.value ELSE analyzer
        /\ ret' = Call("StackOverflowAnalyzer", <<file_paths>>, r)
  /\ UNCHANGED <<_survey_data, _questions_data, program>>

\* stacksurvey.core.load_data(file_paths)
LoadData(file_paths) ==
  /\ program = "stacksurvey"
  /\ LET r == CoreLoads[file_paths]
     IN /\ ret' = Call("load_data", <<file_paths>>, r)
        /\ IF r.raised = ""
           THEN /\ _survey_data' = r.value
                /\ _questions_data' = CoreQuestions[file_paths]
           ELSE UNCHANGED <<_survey_data, _questions_data>>
  /\ UNCHANGED <<analyzer, program>>

\* utils.detect_question_type(column_data, column_name), called directly
DetectQuestionType(column_data) ==
  /\ program = "stackoverflow_analyzer.utils"
  /\ ret' = Call("detect_question_type", <<column_data, TestColumn>>,
                 Return(detect_question_type(column_data, TestColumn)))
  /\ UNCHANGED <<analyzer, _survey_data, _questions_data, program>>

\* utils.extract_question_options(column_data, question_type), called directly
ExtractQuestionOptions(column_data, question_type) ==
  /\ program = "stackoverflow_analyzer.utils"
  /\ ret' = Call("extract_question_options", <<column_data, question_type>>,
                 Return(extract_question_options(column_data, question_type)))
  /\ UNCHANGED <<analyzer, _survey_data, _questions_data, program>>

\* utils.clean_column_name(column_name), called directly
CleanColumnName(column_name) ==
  /\ program = "stackoverflow_analyzer.utils"
  /\ ret' = Call("clean_column_name", <<column_name>>, Return(clean_column_name(column_name)))
  /\ UNCHANGED <<analyzer, _survey_data, _questions_data, program>>

\* utils.generate_question_text(column_name), called directly
GenerateQuestionText(column_name) ==
  /\ program = "stackoverflow_analyzer.utils"
  /\ ret' = Call("generate_question_text", <<column_name>>,
                 Return(generate_question_text(column_name)))
  /\ UNCHANGED <<analyzer, _survey_data, _questions_data, program>>

\* analyzer.search_question(search_term)
SearchQuestion(search_term) ==
  /\ program = "stackoverflow_analyzer"
  /\ analyzer # PyNone
  /\ ret' = Call("search_question", <<search_term>>,
                 Return(search_questions(analyzer.questions, search_term)))
  /\ UNCHANGED <<analyzer, _survey_data, _questions_data, program>>

\* analyzer.search_option(search_term)
SearchOption(search_term) ==
  /\ program = "stackoverflow_analyzer"
  /\ analyzer # PyNone
  /\ ret' = Call("search_option", <<search_term>>,
                 Return(search_options(analyzer.questions, search_term)))
  /\ UNCHANGED <<analyzer, _survey_data, _questions_data, program>>

\* stacksurvey.core.list_questions()
ListQuestions ==
  /\ program = "stacksurvey"
  /\ ret' = Call("list_questions", <<>>, list_questions(_survey_data, _questions_data))
  /\ UNCHANGED <<analyzer, _survey_data, _questions_data, program>>

\* stacksurvey.core.search(question, option)
Search(question, option) ==
  /\ program = "stacksurvey"
  /\ ret' = Call("search", <<question, option>>,
                 search(_survey_data, _questions_data, question, option))
  /\ UNCHANGED <<analyzer, _survey_data, _questions_data, program>>

\* analyzer.create_subset(question_column, option_values)
CreateSubset(question_column, option_values) ==
  /\ program = "stackoverflow_analyzer"
  /\ analyzer # PyNone
  /\ ret' = Call("create_subset", <<question_column, option_values>>,
                 create_subset(analyzer, question_column, option_values))
  /\ UNCHANGED <<analyzer, _survey_data, _questions_data, program>>

\* analyzer.get_answer_distribution(question_column, subset_df); subset_df is
\* left out, or is the table the preceding create_subset returned
GetAnswerDistribution(question_column, subset_df) ==
  /\ program = "stackoverflow_analyzer"
  /\ analyzer # PyNone
  /\ ret' = Call("get_answer_distribution", <<question_column, subset_df>>,
                 get_answer_distribution(analyzer, question_column, subset_df))
  /\ UNCHANGED <<analyzer, _survey_data, _questions_data, program>>

\* analyzer.survey_data.get_question(column_name)
GetQuestion(column_name) ==
  /\ program = "stackoverflow_analyzer"
  /\ analyzer # PyNone
  /\ ret' = Call("get_question", <<column_name>>, Return(get_question(analyzer, column_name)))
  /\ UNCHANGED <<analyzer, _survey_data, _questions_data, program>>

\* analyzer.survey_data.get_questions_by_type(question_type)
GetQuestionsByType(question_type) ==
  /\ program = "stackoverflow_analyzer"
  /\ analyzer # PyNone
  /\ ret' = Call("get_questions_by_type", <<question_type>>,
                 Return(get_questions_by_type(analyzer, question_type)))
  /\ UNCHANGED <<analyzer, _survey_data, _questions_data, program>>

\* stacksurvey.core.filter_respondents(question, option)
FilterRespondents(question, option) ==
  /\ program = "stacksurvey"
  /\ ret' = Call("filter_respondents", <<question, option>>,
                 filter_respondents(_survey_data, _questions_data, question, option))
  /\ UNCHANGED <<analyzer, _survey_data, _questions_data, program>>

\* stacksurvey.core.compute_distribution(question)
ComputeDistribution(question) ==
  /\ program = "stacksurvey"
  /\ ret' = Call("compute_distribution", <<question>>,
                 compute_distribution(_survey_data, _questions_data, question))
  /\ UNCHANGED <<analyzer, _survey_data, _questions_data, program>>

\* stacksurvey.__main__.main(args), in the process that holds the handles
Main(args) ==
  /\ program = "stacksurvey.__main__"
  /\ LET r == main(_survey_data, _questions_data, args)
     IN /\ ret' = Call("main", <<args>>,
                       IF r.raised = ""
                       THEN Return([code |-> r.value.code, stdout |-> r.value.stdout,
                                    stderr |-> r.value.stderr])
                       ELSE r)
        /\ _survey_data' = IF r.raised = "" THEN r.value.survey_data ELSE _survey_data
        /\ _questions_data' = IF r.raised = "" THEN r.value.questions_data
                              ELSE _questions_data
  /\ UNCHANGED <<analyzer, program>>

Next ==
  \/ \E file_paths \in PathLists : NewAnalyzer(file_paths)
  \/ \E column_data \in DirectSeries : DetectQuestionType(column_data)
  \/ \E column_data \in DirectSeries, question_type \in QuestionType :
       ExtractQuestionOptions(column_data, question_type)
  \/ \E column_name \in ColumnNames : CleanColumnName(column_name)
  \/ \E column_name \in ColumnNames : GenerateQuestionText(column_name)
  \/ \E search_term \in SearchTerms : SearchQuestion(search_term)
  \/ \E search_term \in SearchTerms : SearchOption(search_term)
  \/ \E file_paths \in PathLists : LoadData(file_paths)
  \/ ListQuestions
  \/ \E question, option \in {NoArg} \cup {Arg(t) : t \in SearchTerms} : Search(question, option)
  \/ \E question_column \in QuestionColumns, option_values \in OptionLists :
       CreateSubset(question_column, option_values)
  \/ \E question_column \in QuestionColumns : GetAnswerDistribution(question_column, PyNone)
  \/ /\ ret.op = "create_subset" /\ ret.raised = ""
     /\ \E question_column \in QuestionColumns :
          GetAnswerDistribution(question_column, ret.value)
  \/ \E column_name \in QuestionColumns : GetQuestion(column_name)
  \/ \E question_type \in QuestionType : GetQuestionsByType(question_type)
  \/ \E question \in QuestionColumns, option \in OptionCells : FilterRespondents(question, option)
  \/ \E question \in QuestionColumns : ComputeDistribution(question)
  \/ \E args \in CommandLines : Main(args)

Spec == Init /\ [][Next]_vars

(***************************************************************************)
(* The properties                                                          *)
(***************************************************************************)
\* the catalog of the analyzer and the columns it was built from
Catalog == IF analyzer = PyNone THEN <<>> ELSE analyzer.questions
CatalogColumn(q) == Column(analyzer.data, q.column_name)

\* the columns of the table stacksurvey.core holds
CoreColumns == IF _survey_data = PyNone THEN {} ELSE Range(_survey_data.columns)

NonNull(col) == {i \in DOMAIN col.values : col.values[i].kind # "null"}
HasDelimiter(text) == \E i \in DOMAIN text : text[i] = Semicolon
AnyDelimiter(col) == \E i \in NonNull(col) : HasDelimiter(str(col.values[i]))

\* the trimmed ';'-split tokens of all non-null values of a column
AllTokens(col) == UNION {Range(Tokens(col.values[i])) : i \in NonNull(col)}

\* s is ascending (repeats allowed)
Ascending(s) == \A i, j \in DOMAIN s : i < j => ~StrLess(s[j], s[i])

\* C1: a column that is not Numeric is MultipleChoice exactly when one of its
\* non-null values, as text, contains ';', wherever that value stands: in the
\* analyzer's catalog, in a direct call of detect_question_type, and in the
\* question types of stacksurvey.core.
C1_DelimiterAnywhereIsMultipleChoice ==
  /\ \A k \in DOMAIN Catalog :
       Catalog[k].question_type # NUMERIC =>
         (Catalog[k].question_type = MULTIPLE_CHOICE <=> AnyDelimiter(CatalogColumn(Catalog[k])))
  /\ (ret.op = "detect_question_type" /\ ret.value # NUMERIC) =>
         (ret.value = MULTIPLE_CHOICE <=> AnyDelimiter(ret.args[1]))
  /\ \A c \in CoreColumns :
       ~is_numeric_dtype(Column(_survey_data, c)) =>
         (_questions_data.at[c] = "MC" <=> AnyDelimiter(Column(_survey_data, c)))

\* C2: the options of a MultipleChoice column are the trimmed ';'-split tokens
\* of all its non-null values, those without ';' included, without repeats and
\* ascending.
C2_OptionsAreAllTokens ==
  /\ \A k \in DOMAIN Catalog :
       Catalog[k].question_type = MULTIPLE_CHOICE =>
         /\ ~Catalog[k].options.none
         /\ Range(Catalog[k].options.list) = AllTokens(CatalogColumn(Catalog[k]))
         /\ Len(Catalog[k].options.list) = Cardinality(AllTokens(CatalogColumn(Catalog[k])))
         /\ Ascending(Catalog[k].options.list)
  /\ (/\ ret.op = "extract_question_options"
      /\ ret.args[2] = MULTIPLE_CHOICE
      /\ detect_question_type(ret.args[1], TestColumn) = MULTIPLE_CHOICE) =>
         /\ ~ret.value.none
         /\ Range(ret.value.list) = AllTokens(ret.args[1])
         /\ Len(ret.value.list) = Cardinality(AllTokens(ret.args[1]))
         /\ Ascending(ret.value.list)

\* C3: a column without non-null values is SingleChoice with no options, by
\* detect_question_type with extract_question_options and by
\* core._get_question_type, whatever its dtype.
C3_EmptyColumnIsSingleChoice ==
  /\ \A k \in DOMAIN Catalog :
       NonNull(CatalogColumn(Catalog[k])) = {} =>
         /\ Catalog[k].question_type = SINGLE_CHOICE
         /\ Catalog[k].options = List(<<>>)
  /\ (ret.op = "detect_question_type" /\ NonNull(ret.args[1]) = {}) =>
         ret.value = SINGLE_CHOICE
  /\ \A c \in CoreColumns :
       NonNull(Column(_survey_data, c)) = {} => _questions_data.at[c] = "SC"

\* the counts of the classifier: n non-null values, u distinct ones
NonNullCount(col) == Cardinality(NonNull(col))
DistinctValues(col) == {col.values[i] : i \in NonNull(col)}
IsRepeated(col) ==
  /\ NonNullCount(col) > 0
  /\ 5 * Cardinality(DistinctValues(col)) < NonNullCount(col)
  /\ Cardinality(DistinctValues(col)) < 50

\* options is the ascending list, without repeats, of the text forms of the
\* distinct values of col
IsTextSetOf(options, col) ==
  /\ ~options.none
  /\ Range(options.list) = {str(v) : v \in DistinctValues(col)}
  /\ \A t \in Range(options.list) : Occurrences(options.list, t) = 1
  /\ Ascending(options.list)

\* options is the ascending list of the text forms of the distinct values of
\* col other than the empty text, one entry for each such value
IsTextListOf(options, col) ==
  /\ ~options.none
  /\ \A t \in Range(options.list) \cup {str(v) : v \in DistinctValues(col)} :
       Occurrences(options.list, t) =
         Cardinality({v \in DistinctValues(col) : v # Txt(<<>>) /\ str(v) = t})
  /\ Ascending(options.list)

Scenario == <<Txt(sUSA), Txt(sCanada), Txt(sUK), Txt(sUSA), Txt(sGermany)>>

\* C5: the column Country = [USA, Canada, UK, USA, Germany], loaded once or
\* twice, is SingleChoice with the options Canada, Germany, UK, USA, and USA
\* has 2/5 of the valid responses in its distribution.
C5_CountryScenario ==
  \A k \in DOMAIN Catalog :
    (/\ Catalog[k].column_name = cCountry
     /\ CatalogColumn(Catalog[k]).values \in {Scenario, Scenario \o Scenario}) =>
       /\ Catalog[k].question_type = SINGLE_CHOICE
       /\ Catalog[k].options = List(<<sCanada, sGermany, sUK, sUSA>>)
       /\ LET d == get_answer_distribution(analyzer, cCountry, PyNone).value
          IN /\ Txt(sUSA) \in DOMAIN d.distribution
             /\ d.distribution[Txt(sUSA)] * 5 = d.valid_responses * 2
             /\ d.percentages[Txt(sUSA)].num * 5 = d.percentages[Txt(sUSA)].den * 2 * 100

\* the Question the classifier builds for the column named column_name of df
Classified(df, column_name) ==
  Question(column_name,
           generate_question_text(column_name),
           detect_question_type(Column(df, column_name), column_name),
           extract_question_options(Column(df, column_name),
                                    detect_question_type(Column(df, column_name), column_name)))

C7_OptionsOnlyForChoices ==
  \A k \in DOMAIN Catalog :
    /\ ~Catalog[k].options.none <=>
         Catalog[k].question_type \in {SINGLE_CHOICE, MULTIPLE_CHOICE}
    /\ Catalog[k].question_type \in {NUMERIC, TEXT} => Catalog[k].options = None
    /\ Catalog[k].question_type = NUMERIC <=>
         \A i \in NonNull(CatalogColumn(Catalog[k])) :
           CatalogColumn(Catalog[k]).values[i].kind = "num"

\* a catalog with a question of each of the four types
C7_Witness ==
  \A t \in QuestionType : \E k \in DOMAIN Catalog : Catalog[k].question_type = t

\* the frames a successful load read, and the table it merged them into
LoadedSources == Readable(ret.args[1])
Merged == IF ret.op = "load_data" THEN ret.value ELSE ret.value.data
IsLoad == ret.op \in {"StackOverflowAnalyzer", "load_data"} /\ ret.raised = ""

RECURSIVE RowsBefore(_, _)
\* the number of rows of the first k frames of dfs
RowsBefore(dfs, k) == IF k = 0 THEN 0 ELSE RowsBefore(dfs, k - 1) + len(dfs[k])

\* the first frame of dfs that has the column c, and the place of c in it
FirstFrame(dfs, c) == CHOOSE k \in DOMAIN dfs :
  /\ c \in Range(dfs[k].columns)
  /\ \A j \in 1..(k - 1) : c \notin Range(dfs[j].columns)
PlaceIn(df, c) == CHOOSE p \in DOMAIN df.columns : df.columns[p] = c
SeenBefore(dfs, a, b) ==
  \/ FirstFrame(dfs, a) < FirstFrame(dfs, b)
  \/ /\ FirstFrame(dfs, a) = FirstFrame(dfs, b)
     /\ PlaceIn(dfs[FirstFrame(dfs, a)], a) < PlaceIn(dfs[FirstFrame(dfs, a)], b)

\* C8: the table a load merges is the concatenation of its sources: as many
\* rows as the sources have together, every source's rows in their order at
\* its place, the columns of all sources in first-seen order, and null where
\* a row's source has no such column.
C8_MergedIsConcatenation ==
  IsLoad =>
    /\ len(Merged) = RowsBefore(LoadedSources, Len(LoadedSources))
    /\ \A c \in Range(Merged.columns) : Len(Merged.data[c].values) = len(Merged)
    /\ Range(Merged.columns) = UNION {Range(LoadedSources[k].columns) : k \in DOMAIN LoadedSources}
    /\ \A p, q \in DOMAIN Merged.columns :
         p < q => SeenBefore(LoadedSources, Merged.columns[p], Merged.columns[q])
    /\ \A k \in DOMAIN LoadedSources : \A i \in 1..len(LoadedSources[k]) :
         \A c \in Range(Merged.columns) :
           Merged.data[c].values[RowsBefore(LoadedSources, k - 1) + i] =
             IF c \in Range(LoadedSources[k].columns)
             THEN LoadedSources[k].data[c].values[i]
             ELSE Null
    /\ IF ret.op = "load_data" THEN _survey_data = Merged ELSE analyzer.data = Merged

\* a load has merged two sources of which each has a column the other lacks
C8_Witness ==
  /\ IsLoad
  /\ \E j, k \in DOMAIN LoadedSources :
       /\ j < k
       /\ Range(LoadedSources[j].columns) \ Range(LoadedSources[k].columns) # {}
       /\ Range(LoadedSources[k].columns) \ Range(LoadedSources[j].columns) # {}

\* C9: an empty search term finds nothing: search_questions and
\* search_options return the empty list, and core.search gives no questions
\* for question='' and no options for option=''.
C9_EmptyTermFindsNothing ==
  /\ (ret.op \in {"search_question", "search_option"} /\ ret.args[1] = <<>>) =>
       ret.value = <<>>
  /\ (ret.op = "search" /\ ret.raised = "") =>
       /\ ret.args[1] = Arg(<<>>) => ret.value.questions = <<>>
       /\ ret.args[2] = Arg(<<>>) => ret.value.options = <<>>

\* term occurs in text when the case of the letters is ignored
OccursIn(term, text) ==
  \E at \in 0..(Len(text) - Len(term)) :
    \A j \in 1..Len(term) : LowerChar(text[at + j]) = LowerChar(term[j])

IsHit(q, term) ==
  \/ OccursIn(term, q.column_name)
  \/ OccursIn(term, q.question_text)
  \/ ~q.options.none /\ \E k \in DOMAIN q.options.list : OccursIn(term, q.options.list[k])

CatalogPlace(q) == CHOOSE k \in DOMAIN Catalog : Catalog[k] = q

OptionHits(q, term) ==
  IF q.options.none THEN <<>>
  ELSE SelectSeq(q.options.list, LAMBDA opt : OccursIn(term, opt))

\* C11: search_options returns one (question, matchingOptions) pair for each
\* question that has an option list with an option containing the term, case
\* ignored, and none for another question; matchingOptions is the sub-list of
\* the question's options that contain the term; the pairs are in catalog
\* order.
C11_OptionSearchIsExact ==
  ret.op = "search_option" =>
    /\ ret.raised = ""
    /\ \A i \in DOMAIN ret.value :
         /\ ret.value[i][1] \in Range(Catalog)
         /\ ret.value[i][2] # <<>>
         /\ ret.value[i][2] = OptionHits(ret.value[i][1], ret.args[1])
    /\ \A k \in DOMAIN Catalog :
         OptionHits(Catalog[k], ret.args[1]) # <<>> =>
           \E i \in DOMAIN ret.value : ret.value[i][1] = Catalog[k]
    /\ \A i, j \in DOMAIN ret.value :
         i < j => CatalogPlace(ret.value[i][1]) < CatalogPlace(ret.value[j][1])

\* a search for 'Java' has found two of the five options of one question
C11_Witness ==
  /\ ret.op = "search_option"
  /\ ret.args[1] = <<74, 97, 118, 97>>
  /\ \E i \in DOMAIN ret.value :
       /\ ret.value[i][2] = <<sJava, sJavaScript>>
       /\ Len(ret.value[i][1].options.list) = 5

\* a filter has returned a table
IsFilter == ret.op \in {"create_subset", "filter_respondents"} /\ ret.raised = ""
\* the table it filtered, the column it was asked for and the answers it was given
Filtered == IF ret.op = "create_subset" THEN analyzer.data ELSE _survey_data
FilterColumn == Column(Filtered, ret.args[1])
Targets == IF ret.op = "create_subset" THEN Range(ret.args[2]) ELSE {ret.args[2]}
FilterIsMultipleChoice ==
  IF ret.op = "create_subset"
  THEN get_question(analyzer, ret.args[1]).question_type = MULTIPLE_CHOICE
  ELSE _questions_data.at[ret.args[1]] = "MC"
\* the positions of the rows the returned table holds
ReturnedRows == {ret.value.index[j] + 1 : j \in DOMAIN ret.value.index}

\* the trimmed tokens of a cell, as texts
TrimmedTokens(v) == {Txt(strip(t)) : t \in Range(split(str(v), Semicolon))}

\* C12: filtering a MultipleChoice question, by create_subset or by
\* core.filter_respondents, returns exactly the rows of which the value is
\* non-null and has a ';'-split, trimmed token among the target options.
C12_MultipleChoiceFilterByToken ==
  (IsFilter /\ FilterIsMultipleChoice) =>
    ReturnedRows = {i \in NonNull(FilterColumn) :
                      TrimmedTokens(FilterColumn.values[i]) \cap Targets # {}}

\* C13: filtering a SingleChoice, Numeric or Text question returns exactly
\* the rows of which the raw value is non-null and equal to a target option,
\* a number to a number and a text to a text; a value that does not occur in
\* the column gives an empty table.
C13_OtherFilterByValue ==
  (IsFilter /\ ~FilterIsMultipleChoice) =>
    /\ ReturnedRows = {i \in NonNull(FilterColumn) : FilterColumn.values[i] \in Targets}
    /\ Targets \cap DistinctValues(FilterColumn) = {} => len(ret.value) = 0

\* create_subset has picked some rows, not all, of a Numeric question by a
\* number, and the text of that number would have picked none
C13_Witness ==
  /\ ret.op = "create_subset" /\ ret.raised = ""
  /\ get_question(analyzer, ret.args[1]).question_type = NUMERIC
  /\ 0 < len(ret.value) /\ len(ret.value) < len(analyzer.data)
  /\ \A o \in Targets : o.kind = "num" /\ Txt(str(o)) \notin DistinctValues(FilterColumn)

\* C14: create_subset and filter_respondents return a new table of which the
\* rows are rows of the merged table, in their order and with every column,
\* and the call leaves the merged table and the catalog as they were.
C14_SubsetIsNewTable ==
  [][(ret'.op \in {"create_subset", "filter_respondents"} /\ ret'.raised = "") =>
       /\ UNCHANGED <<analyzer, _survey_data, _questions_data>>
       /\ LET source == IF ret'.op = "create_subset" THEN analyzer.data ELSE _survey_data
              subset == ret'.value
          IN /\ subset.columns = source.columns
             /\ \A j \in DOMAIN subset.index :
                  /\ subset.index[j] + 1 \in DOMAIN source.index
                  /\ j > 1 => subset.index[j - 1] < subset.index[j]
                  /\ \A c \in Range(source.columns) :
                       /\ Len(subset.data[c].values) = Len(subset.index)
                       /\ subset.data[c].values[j] = source.data[c].values[subset.index[j] + 1]
     ]_vars

\* a filter has returned two rows or more that are not adjacent in a table
\* of several columns
C14_Witness ==
  /\ IsFilter
  /\ Len(ret.value.columns) > 1
  /\ \E j \in DOMAIN ret.value.index :
       j > 1 /\ ret.value.index[j - 1] + 1 < ret.value.index[j]

\* C15: with a table loaded, create_subset, get_answer_distribution,
\* filter_respondents and compute_distribution fail with the unknown-question
\* error (ValueError) for every name that is no question of the catalog or
\* column of the table, return nothing, and leave the table and the catalog
\* as they were.
C15_UnknownQuestionFails ==
  [][/\ (/\ ret'.op \in {"create_subset", "get_answer_distribution"}
         /\ get_question(analyzer, ret'.args[1]) = PyNone) =>
          /\ ret'.raised = "ValueError" /\ ret'.value = PyNone
          /\ UNCHANGED <<analyzer, _survey_data, _questions_data>>
     /\ (/\ ret'.op \in {"filter_respondents", "compute_distribution"}
         /\ _survey_data # PyNone
         /\ ret'.args[1] \notin Range(_survey_data.columns)) =>
          /\ ret'.raised = "ValueError" /\ ret'.value = PyNone
          /\ UNCHANGED <<analyzer, _survey_data, _questions_data>>
    ]_vars

\* a filter or a distribution has been asked for a name that the loaded
\* table has not
C15_Witness ==
  /\ ret.raised = "ValueError"
  /\ \/ /\ ret.op \in {"create_subset", "get_answer_distribution"}
        /\ get_question(analyzer, ret.args[1]) = PyNone
     \/ /\ ret.op \in {"filter_respondents", "compute_distribution"}
        /\ _survey_data # PyNone
        /\ ret.args[1] \notin Range(_survey_data.columns)

\* get_answer_distribution has returned its statistics
IsDistribution == ret.op = "get_answer_distribution" /\ ret.raised = ""
\* the table they are about and the asked column of it
SourceTable == IF ret.args[2] = PyNone THEN analyzer.data ELSE ret.args[2]
SourceColumn == Column(SourceTable, ret.args[1])
DistributionIsMultipleChoice == ret.value.question.question_type = MULTIPLE_CHOICE

\* the quotient r is num / den, and r is the percentage 100 * num / den
IsFraction(r, num, den) == r.den # 0 /\ den # 0 /\ r.num * den = num * r.den
IsPercentage(r, num, den) == r.den # 0 /\ den # 0 /\ r.num * den = 100 * num * r.den

RECURSIVE SumOver(_, _)
\* the sum of f over the set S of its arguments
SumOver(f, S) ==
  IF S = {} THEN 0
  ELSE LET x == CHOOSE y \in S : TRUE IN f[x] + SumOver(f, S \ {x})

\* the counts of the source table that every distribution reports
ResponseCounts ==
  /\ ret.value.valid_responses = NonNullCount(SourceColumn)
  /\ ret.value.total_responses = len(SourceTable)
  /\ 0 <= ret.value.valid_responses
  /\ ret.value.valid_responses <= ret.value.total_responses

\* C16 as stated: the counts are those of the source table and the response
\* rate is the quotient valid / total, 0 for a table without rows.
C16_ResponseRateIsFraction ==
  IsDistribution =>
    /\ ResponseCounts
    /\ IF ret.value.total_responses = 0 THEN ret.value.response_rate.num = 0
       ELSE IsFraction(ret.value.response_rate,
                       ret.value.valid_responses, ret.value.total_responses)

\* C16: get_answer_distribution over the full table, or over the subset it
\* is given: valid_responses is the number of non-null values of the column,
\* total_responses the number of rows, 0 <= valid <= total, and the response
\* rate is the percentage 100 * valid / total, 0 for a table without rows.
C16_ResponseRateIsPercentage ==
  IsDistribution =>
    /\ ResponseCounts
    /\ IF ret.value.total_responses = 0 THEN ret.value.response_rate.num = 0
       ELSE IsPercentage(ret.value.response_rate,
                         ret.value.valid_responses, ret.value.total_responses)

\* a distribution over a given subset in which some row, not every row, has
\* an answer
C16_Witness ==
  /\ IsDistribution
  /\ ret.args[2] # PyNone
  /\ 0 < ret.value.valid_responses
  /\ ret.value.valid_responses < ret.value.total_responses
  /\ ret.value.total_responses < len(analyzer.data)

\* the places <<row, k>> of the trimmed tokens of the non-null cells of col
TokenPlaces(col) ==
  UNION {{<<i, k>> : k \in DOMAIN split(str(col.values[i]), Semicolon)} : i \in NonNull(col)}
TokenAt(col, place) == strip(split(str(col.values[place[1]]), Semicolon)[place[2]])
TokenCount(col, token) == Cardinality({place \in TokenPlaces(col) : TokenAt(col, place) = token})

\* C17: the distribution of a MultipleChoice question has every trimmed
\* ';'-split token of every non-null value, a single selection included, with
\* the number of its occurrences as count and count / valid_responses as
\* percentage.
C17_MultipleChoiceCountsEveryToken ==
  (IsDistribution /\ DistributionIsMultipleChoice) =>
    /\ DOMAIN ret.value.distribution =
         {TokenAt(SourceColumn, place) : place \in TokenPlaces(SourceColumn)}
    /\ \A token \in DOMAIN ret.value.distribution :
         /\ ret.value.distribution[token] = TokenCount(SourceColumn, token)
         /\ \/ IsFraction(ret.value.percentages[token],
                          TokenCount(SourceColumn, token), ret.value.valid_responses)
            \/ IsPercentage(ret.value.percentages[token],
                            TokenCount(SourceColumn, token), ret.value.valid_responses)

\* compute_distribution has returned the shares of an 'MC' question
IsCoreShares(type) ==
  /\ ret.op = "compute_distribution" /\ ret.raised = ""
  /\ _questions_data.at[ret.args[1]] = type
CoreColumn == Column(_survey_data, ret.args[1])
\* the places <<row, k>> of the ';'-split tokens of the text cells of col
SelectionPlaces(col) ==
  UNION {{<<i, k>> : k \in DOMAIN split(col.values[i].val, Semicolon)} :
           i \in {j \in NonNull(col) : col.values[j].kind = "text"}}
SelectionAt(col, place) == split(col.values[place[1]].val, Semicolon)[place[2]]
SelectionCount(col, token) ==
  Cardinality({place \in SelectionPlaces(col) : SelectionAt(col, place) = token})

\* C18: compute_distribution of an 'MC' question gives every ';'-split token
\* the number of its occurrences divided by the number of all selections of
\* all respondents; the shares sum to 1.
C18_SharesOfAllSelections ==
  IsCoreShares("MC") =>
    /\ DOMAIN ret.value =
         {SelectionAt(CoreColumn, place) : place \in SelectionPlaces(CoreColumn)}
    /\ \A token \in DOMAIN ret.value :
         /\ ret.value[token].den = Cardinality(SelectionPlaces(CoreColumn))
         /\ ret.value[token].num = SelectionCount(CoreColumn, token)
    /\ SumOver([token \in DOMAIN ret.value |-> ret.value[token].num], DOMAIN ret.value) =
         Cardinality(SelectionPlaces(CoreColumn))

\* Python has 3 of the 10 selections of the five respondents of Languages
C18_Witness ==
  /\ IsCoreShares("MC")
  /\ ret.args[1] = cLanguages
  /\ Len(CoreColumn.values) = 5
  /\ ret.value[sPython] = Ratio(3, 10)

\* the number of non-null cells of col that are the value v
ValueCount(col, v) == Cardinality({i \in NonNull(col) : col.values[i] = v})

\* the counts of a distribution of a question that is not MultipleChoice
ValueCounts ==
  /\ DOMAIN ret.value.distribution = DistinctValues(SourceColumn)
  /\ \A v \in DOMAIN ret.value.distribution :
       ret.value.distribution[v] = ValueCount(SourceColumn, v)
  /\ SumOver(ret.value.distribution, DOMAIN ret.value.distribution) =
       ret.value.valid_responses

\* the shares compute_distribution gives a question that is not 'MC'
CoreValueShares ==
  /\ DOMAIN ret.value = DistinctValues(CoreColumn)
  /\ \A v \in DOMAIN ret.value :
       IsFraction(ret.value[v], ValueCount(CoreColumn, v), NonNullCount(CoreColumn))
  /\ DOMAIN ret.value # {} =>
       /\ \A v \in DOMAIN ret.value : ret.value[v].den = NonNullCount(CoreColumn)
       /\ SumOver([v \in DOMAIN ret.value |-> ret.value[v].num], DOMAIN ret.value) =
            NonNullCount(CoreColumn)

C20_OptionShareWithinWhole ==
  (IsDistribution /\ DistributionIsMultipleChoice) =>
    \A token \in DOMAIN ret.value.distribution :
      /\ ret.value.distribution[token] <= ret.value.valid_responses
      /\ ret.value.percentages[token].num <= 100 * ret.value.percentages[token].den

\* the queries of stacksurvey.core
CoreQueries == {"list_questions", "search", "filter_respondents", "compute_distribution"}

\* C21: a query of stacksurvey.core made before any successful load_data
\* fails with the not-loaded error (RuntimeError) and returns nothing; once a
\* load_data has succeeded the table stays loaded and no query raises that
\* error.
C21_QueriesNeedLoad ==
  [][/\ ret'.op \in CoreQueries =>
          /\ ret'.raised = "RuntimeError" <=> _survey_data = PyNone
          /\ ret'.raised = "RuntimeError" => ret'.value = PyNone
          /\ UNCHANGED <<_survey_data, _questions_data>>
     /\ (ret'.op = "load_data" /\ ret'.raised = "") => _survey_data' # PyNone
     /\ _survey_data # PyNone => _survey_data' # PyNone
    ]_vars

\* list_questions has failed for want of a loaded table
C21_Witness ==
  /\ ret.op = "list_questions"
  /\ ret.raised = "RuntimeError"
  /\ _survey_data = PyNone

\* the lines the handlers and main write when a command fails
ErrorLines ==
  {"Error loading data", "Error listing questions", "Error searching",
   "Error filtering", "Error computing distribution", "Please specify a command."}

\* the operation under a command raises, run on the given handles; saving the
\* filtered table is part of the filter command; no command counts as failed
CommandFails(survey_data, questions_data, args) ==
  IF args.command = "load" THEN load_data(args.files).raised # ""
  ELSE IF args.command = "list-questions"
  THEN list_questions(survey_data, questions_data).raised # ""
  ELSE IF args.command = "search"
  THEN search(survey_data, questions_data, args.question, args.option).raised # ""
  ELSE IF args.command = "filter"
  THEN \/ filter_respondents(survey_data, questions_data,
                             args.question.text, Txt(args.option.text)).raised # ""
       \/ args.output.given /\ ~Writable(args.output.text)
  ELSE IF args.command = "distribution"
  THEN compute_distribution(survey_data, questions_data, args.question.text).raised # ""
  ELSE TRUE

\* C22: a command that main handles returns 0 when its operation succeeds and
\* 1 when it raises (a query before a load, an unknown question, a missing
\* file, a result that cannot be saved); the error line goes to stderr and
\* never to stdout, a successful command writes nothing to stderr; without a
\* command main returns 1; only a successful load changes the handles.
C22_ExitCodes ==
  [][(ret'.op = "main" /\ ret'.raised = "") =>
       LET args == ret'.args[1]
           failed == CommandFails(_survey_data, _questions_data, args)
       IN /\ ret'.value.code = IF failed THEN 1 ELSE 0
          /\ failed => /\ ret'.value.stderr # <<>>
                        /\ Range(ret'.value.stderr) \subseteq ErrorLines
          /\ ~failed => ret'.value.stderr = <<>> /\ ret'.value.stdout # <<>>
          /\ Range(ret'.value.stdout) \cap ErrorLines = {}
          /\ args.command = "" => ret'.value.code = 1
          /\ (failed \/ args.command # "load") =>
                UNCHANGED <<_survey_data, _questions_data>>
          /\ (~failed /\ args.command = "load") => _survey_data' # PyNone
    ]_vars

\* after a load, the filter command named a question the table does not have:
\* exit code 1, the error on stderr, nothing on stdout
C22_Witness ==
  /\ ret.op = "main" /\ ret.raised = ""
  /\ ret.args[1].command = "filter" /\ _survey_data # PyNone
  /\ ~ret.args[1].output.given
  /\ ret.value.code = 1 /\ ret.value.stderr = <<"Error filtering">>
  /\ ret.value.stdout = <<>>

\* a call of one of the two loaders: load_data, or load_survey_data run by
\* the constructor of the analyzer
LoaderCalled == ret.op \in {"load_data", "StackOverflowAnalyzer"}
NamedPaths == ret.args[1]
MissingNamed == \E i \in DOMAIN NamedPaths : ~exists(NamedPaths[i])

\* C23: a load that names a path that does not exist raises the
\* source-not-found error (FileNotFoundError) and produces no table, for
\* load_data and for load_survey_data.
C23_MissingPathFailsFast ==
  (LoaderCalled /\ MissingNamed) =>
    /\ ret.raised = "FileNotFoundError"
    /\ ret.value = PyNone
    /\ analyzer = PyNone

\* C24: when every named path exists, a load skips the sources that fail to
\* parse: it succeeds with exactly the rows of the sources that parsed when
\* there is one, and raises the empty-input error (ValueError) when no
\* source was given or none parsed, for load_survey_data and for load_data.
C24_UnparsableIsSkipped ==
  (LoaderCalled /\ ~MissingNamed) =>
    IF LoadedSources = <<>> THEN ret.raised = "ValueError"
    ELSE /\ ret.raised = ""
         /\ len(Merged) = RowsBefore(LoadedSources, Len(LoadedSources))

\* C25: the catalog has one Question per column of the merged table, in
\* column order, and question_count is the number of columns; get_question
\* returns the Question of a column name and None for any other name;
\* get_questions_by_type(t) returns the questions of type t, all of them and
\* no other, in catalog order; every question is in the list of exactly one
\* type and the four lists together are as long as the catalog.
C25_CatalogLookup ==
  /\ analyzer # PyNone =>
       /\ question_count(analyzer) = Len(analyzer.data.columns)
       /\ respondent_count(analyzer) = len(analyzer.data)
       /\ \A k \in DOMAIN Catalog : Catalog[k].column_name = analyzer.data.columns[k]
       /\ \A k \in DOMAIN Catalog :
            Cardinality({t \in QuestionType :
                          Catalog[k] \in Range(get_questions_by_type(analyzer, t))}) = 1
       /\ SumOver([t \in QuestionType |-> Len(get_questions_by_type(analyzer, t))],
                  QuestionType) = Len(Catalog)
  /\ ret.op = "get_question" =>
       /\ ret.raised = ""
       /\ \A k \in DOMAIN Catalog :
            Catalog[k].column_name = ret.args[1] => ret.value = Catalog[k]
       /\ ret.args[1] \notin Range(analyzer.data.columns) => ret.value = PyNone
  /\ ret.op = "get_questions_by_type" =>
       /\ ret.raised = ""
       /\ \A i \in DOMAIN ret.value :
            ret.value[i].question_type = ret.args[1] /\ ret.value[i] \in Range(Catalog)
       /\ \A k \in DOMAIN Catalog :
            Catalog[k].question_type = ret.args[1] => Catalog[k] \in Range(ret.value)
       /\ \A i, j \in DOMAIN ret.value :
            i < j => CatalogPlace(ret.value[i]) < CatalogPlace(ret.value[j])

\* of a catalog with questions of several types, get_questions_by_type has
\* returned two questions between which the catalog has one of another type
C25_Witness ==
  /\ ret.op = "get_questions_by_type" /\ Len(ret.value) >= 2
  /\ Len(ret.value) < Len(Catalog)
  /\ \E i \in DOMAIN ret.value : i > 1 /\
       CatalogPlace(ret.value[i]) > CatalogPlace(ret.value[i - 1]) + 1

IsAlnum(c) == (c >= 48 /\ c <= 57) \/ (c >= 65 /\ c <= 90) \/ (c >= 97 /\ c <= 122)
\* text of letters, digits and single spaces between them
IsSpacedWords(text) ==
  /\ \A i \in DOMAIN text : IsAlnum(text[i]) \/ text[i] = Space
  /\ \A i \in DOMAIN text : text[i] = Space => i > 1 /\ i < Len(text) /\ text[i + 1] # Space
\* the words of a name: its letters and digits, cut at any other character
WordStarts(text) == {i \in DOMAIN text : IsAlnum(text[i]) /\ (i = 1 \/ ~IsAlnum(text[i - 1]))}

\* C26: clean_column_name gives the words of the name (punctuation, the
\* underscore and the hyphen included, and whitespace separate them) joined
\* by single spaces: 'Test_Column-Name!' becomes 'Test Column Name';
\* generate_question_text is that text with '?' appended; the type of a
\* catalog question does not depend on the name of its column.
C26_PunctuationBecomesSpace ==
  /\ ret.op = "clean_column_name" =>
       /\ IsSpacedWords(ret.value)
       /\ SelectSeq(ret.value, IsAlnum) = SelectSeq(ret.args[1], IsAlnum)
       /\ Cardinality(WordStarts(ret.value)) = Cardinality(WordStarts(ret.args[1]))
  /\ ret.op = "generate_question_text" =>
       ret.value = Append(clean_column_name(ret.args[1]), QuestionMark)
  /\ \A k \in DOMAIN Catalog :
       /\ Catalog[k].question_text = generate_question_text(Catalog[k].column_name)
       /\ Catalog[k].question_type = detect_question_type(CatalogColumn(Catalog[k]), TestColumn)

\* the two handles of stacksurvey.core belong together: both unset, or a
\* table and the dict of the types of exactly its columns
HandlesAgree(survey_data, questions_data) ==
  /\ survey_data = PyNone <=> questions_data = PyNone
  /\ survey_data # PyNone =>
       /\ questions_data.keys = survey_data.columns
       /\ \A c \in Range(survey_data.columns) :
            questions_data.at[c] = _get_question_type(survey_data, c)

\* C27: in stacksurvey.core, before and after every call the handles are
\* both unset or both set, with the columns of _survey_data as the keys of
\* _questions_data; a load_data that raises leaves both as they were; a
\* load_data that succeeds sets _survey_data to the table it returns, which
\* has the rows and columns of the sources of that call only.
C27_HandlesDescribeLastLoad ==
  [][/\ HandlesAgree(_survey_data, _questions_data)
     /\ HandlesAgree(_survey_data', _questions_data')
     /\ (ret'.op = "load_data" /\ ret'.raised # "") =>
           UNCHANGED <<_survey_data, _questions_data>>
     /\ (ret'.op = "load_data" /\ ret'.raised = "") =>
           LET sources == Readable(ret'.args[1])
           IN /\ _survey_data' = ret'.value
              /\ len(_survey_data') = RowsBefore(sources, Len(sources))
              /\ Range(_survey_data'.columns) =
                   UNION {Range(sources[k].columns) : k \in DOMAIN sources}
    ]_vars

\* a load_data that raised after an earlier one had succeeded: the handles
\* still hold the earlier table
C27_Witness ==
  /\ ret.op = "load_data" /\ ret.raised # ""
  /\ _survey_data # PyNone /\ _questions_data # PyNone

\* no value of the column has the same trimmed token twice
NoRepeatedToken(col) ==
  \A i \in NonNull(col) :
    LET tokens == split(str(col.values[i]), Semicolon)
    IN \A j, k \in DOMAIN tokens : strip(tokens[j]) = strip(tokens[k]) => j = k

\* the count a distribution reports for a label, 0 for a label it lacks
ReportedCount(distribution, label) ==
  IF label \in DOMAIN distribution THEN distribution[label] ELSE 0

\* C28: for a MultipleChoice question of which no value repeats a token, the
\* count that get_answer_distribution on the full table reports for any
\* option v of the question is the number of rows of
\* create_subset(question, [v]); a value that is one option alone counts.
C28_CountIsSubsetSize ==
  (/\ IsDistribution /\ ret.args[2] = PyNone
   /\ DistributionIsMultipleChoice
   /\ NoRepeatedToken(SourceColumn)) =>
    \A k \in DOMAIN ret.value.question.options.list :
      LET v == ret.value.question.options.list[k]
      IN ReportedCount(ret.value.distribution, v) =
           len(create_subset(analyzer, ret.args[1], <<Txt(v)>>).value)

\* the text of a label of a distribution: a token of a MultipleChoice
\* question is text already, any other label is a value of the column
LabelText(question, label) ==
  IF question.question_type = MULTIPLE_CHOICE THEN label ELSE str(label)

\* C29: for every SingleChoice or MultipleChoice question of the catalog,
\* create_subset of the question and any one of its catalog options returns
\* at least one row, and every label of the question's distribution over the
\* full table is one of its catalog options.
C29_OptionsOccurInData ==
  \A k \in DOMAIN Catalog :
    Catalog[k].question_type \in {SINGLE_CHOICE, MULTIPLE_CHOICE} =>
      LET question == Catalog[k]
          stats == get_answer_distribution(analyzer, question.column_name, PyNone)
      IN /\ \A o \in DOMAIN question.options.list :
              LET subset == create_subset(analyzer, question.column_name,
                                          <<Txt(question.options.list[o])>>)
              IN subset.raised = "" /\ len(subset.value) >= 1
         /\ stats.raised = ""
         /\ \A label \in DOMAIN stats.value.distribution :
              LabelText(question, label) \in Range(question.options.list)

\* the questions of the pairs search_options returns, in their order
PairQuestions(pairs) == [i \in DOMAIN pairs |-> pairs[i][1]]
\* every element of sub is in full, and in the order it has in sub
IsSubsequence(sub, full) ==
  /\ \A i \in DOMAIN sub : sub[i] \in Range(full)
  /\ \A i, j \in DOMAIN sub :
       i < j => (CHOOSE p \in DOMAIN full : full[p] = sub[i]) <
                (CHOOSE p \in DOMAIN full : full[p] = sub[j])

\* C30: for a non-empty term, the questions that search_options returns are
\* among the questions that search_questions returns for the same term, in
\* the same order, which is the catalog's.
C30_OptionHitsAreQuestionHits ==
  /\ (ret.op = "search_option" /\ ret.args[1] # <<>>) =>
        /\ IsSubsequence(PairQuestions(ret.value), search_questions(Catalog, ret.args[1]))
        /\ IsSubsequence(PairQuestions(ret.value), Catalog)
  /\ (ret.op = "search_question" /\ ret.args[1] # <<>>) =>
        /\ IsSubsequence(PairQuestions(search_options(Catalog, ret.args[1])), ret.value)
        /\ IsSubsequence(ret.value, Catalog)

\* search_option has found two questions or more by their options, and
\* search_question finds one more for the term, by its name or text
C30_Witness ==
  /\ ret.op = "search_option" /\ ret.args[1] # <<>>
  /\ Len(ret.value) >= 2
  /\ Len(search_questions(Catalog, ret.args[1])) > Len(ret.value)

====
